---- MODULE Spec2Model ----
(***************************************************************************)
(* The ntfy listener actor of ntfy-daemon/src/listener.rs: the command     *)
(* loop (run_loop), the supervised loop with backoff                       *)
(* (run_supervised_loop), one connection attempt (recv_and_forward_loop),  *)
(* set_state, and the handle's two channels with their peers (the event    *)
(* consumer, the command senders, the HTTP server).                        *)
(*                                                                         *)
(* One action is one poll step of the actor task: it runs the code from    *)
(* one suspension point (.await that can be pending) to the next.          *)
(***************************************************************************)
EXTENDS Integers, Sequences, FiniteSets, TLC

----------------------------------------------------------------------------
\* Bounds of the exploration.

\* iterations of the supervised loop (line 165) explored in one run
MaxAttempts == 3
\* lines the server streams in one run, over all attempts
MaxLines == 2
\* message timestamps are 1..MaxTime; the configured cursor starts at 0
MaxTime == 2
\* commands the handle's owners send in one run
MaxCommands == 1
\* capacity of the outbound event channel (async_channel::bounded(64) at
\* line 269, scaled down so that a full channel is reached)
EventCapacity == 1

\* Program constants.

\* retrier(): .min(Duration::from_secs(1)), seconds
MinDelay == 1
\* retrier(): .max(Duration::from_secs(5 * 60)), seconds
MaxDelay == 300
\* uptime > Duration::from_secs(60 * 4), seconds
StableUptime == 240
\* mpsc::channel(1)
CommandCapacity == 1

\* The uptimes sampled for an attempt that fails after a suspension, in
\* seconds: the stability threshold exactly, and one second past it.
Uptimes == {StableUptime, StableUptime + 1}

----------------------------------------------------------------------------
VARIABLES
    pc,             \* where the actor task is suspended
    state,          \* ListenerActor.state
    since,          \* ListenerActor.config.since, the resume cursor
    retry,          \* the backoff generator local to run_supervised_loop
    uptime,         \* the uptime the failure handler last computed (line 169)
    pending,        \* the event a suspended event_tx.send() still holds
    events,         \* the outbound event channel's queue
    events_open,    \* an event receiver is still alive
    commands,       \* the command channel's queue
    commands_open,  \* a command sender is still alive
    reply,          \* the oneshot of the GetState in progress, caller's side
    endpoint_ok,    \* the configured endpoint/topic build a valid request
    last_request,   \* history: the cursor carried by the last executed request
    attempts,       \* history: supervised-loop iterations started
    lines,          \* history: lines read from response bodies
    ncmds,          \* history: commands sent
    last_cmd,       \* history: the last command the actor took
    last_set,       \* history: the last argument of set_state
    cancelled,      \* history: what the last command arm dropped
    emitted,        \* history: the state of the last state change enqueued
    canned,         \* tests: the NullableClient's canned responses
    served,         \* tests: how many canned responses were served
    body,           \* tests: the unread lines of the response being read
    items           \* tests: the events the test has collected

\* what only the tests' harness changes
testVars == <<canned, served, body, items>>

vars == <<pc, state, since, retry, uptime, pending, events, events_open,
          commands, commands_open, reply, endpoint_ok, last_request,
          attempts, lines, ncmds, last_cmd, last_set, cancelled, emitted,
          canned, served, body, items>>

----------------------------------------------------------------------------
\* Data.

Max(a, b) == IF a >= b THEN a ELSE b
Min(a, b) == IF a <= b THEN a ELSE b

\* enum ConnectionState. The error a Reconnecting carries is opaque to the
\* actor: it is kept as present ("some") or absent ("none").
Unitialized == [name |-> "Unitialized", retry_count |-> 0, delay |-> 0, error |-> "none"]
Connected == [name |-> "Connected", retry_count |-> 0, delay |-> 0, error |-> "none"]
Reconnecting(c, d) == [name |-> "Reconnecting", retry_count |-> c, delay |-> d, error |-> "some"]

\* enum ListenerEvent
MessageEvent(t) == [kind |-> "Message", time |-> t, state |-> Unitialized]
ConnectionStateChanged(s) == [kind |-> "ConnectionStateChanged", time |-> 0, state |-> s]
\* no request has been executed yet
NoRequest == 0 - 1
NoEvent == [kind |-> "none", time |-> 0, state |-> Unitialized]

\* the caller's end of the oneshot reply channel
NoReply == [status |-> "none", value |-> Unitialized]
Waiting == [status |-> "waiting", value |-> Unitialized]
Abandoned == [status |-> "abandoned", value |-> Unitialized]
Closed == [status |-> "closed", value |-> Unitialized]
Answered(s) == [status |-> "answered", value |-> s]
\* state(): commands.send() returned an error
SendFailed == [status |-> "send_failed", value |-> Unitialized]

\* crate::retry::WaitExponentialRandom: a fresh generator, its attempt count,
\* the delay it announces and the generator after one wait().
FreshRetry == [count |-> 0]
NextDelay(r) == Min(MaxDelay, MinDelay * (2 ^ r.count))
Waited(r) == [count |-> r.count + 1]

Ended == {"done", "panicked"}

\* What the select's command arm dropped with the run_supervised_loop future
\* when run_loop goes on to its next iteration (Restart, GetState): the
\* position the future was suspended at and the event its send held.
Cancelled(p, ev) == [at |-> p, event |-> ev]
\* no future was dropped since the current one was created
NotCancelled == Cancelled("none", NoEvent)

\* A line of a response body: its kind, and the timestamp of its MinMessage.
\* "io_error" is a failed read, "invalid" a line that is no MinMessage,
\* "unknown" a line with a timestamp that is no ServerEvent.
Line(k, t) == [kind |-> k, time |-> t]

----------------------------------------------------------------------------
\* The state ListenerHandle::new leaves: the actor spawned with state
\* Unitialized and not yet polled, both channels empty.
Init ==
    /\ pc = "idle"
    /\ state = Unitialized
    /\ since = 0
    /\ retry = FreshRetry
    /\ uptime = 0
    /\ pending = NoEvent
    /\ events = <<>>
    /\ events_open = TRUE
    /\ commands = <<>>
    /\ commands_open = TRUE
    /\ reply = NoReply
    /\ endpoint_ok \in BOOLEAN
    /\ last_request = NoRequest
    /\ attempts = 0
    /\ lines = 0
    /\ ncmds = 0
    /\ last_cmd = "none"
    /\ last_set = Unitialized
    /\ cancelled = NotCancelled
    /\ emitted = Unitialized
    /\ canned = <<>>
    /\ served = 0
    /\ body = <<>>
    /\ items = <<>>

----------------------------------------------------------------------------
\* Helpers of the actor's steps. Each assigns a fixed group of variables.

\* actor_dropped with the oneshot sender of a queued GetState kept alive.
actor_dropped_keeps_reply(p) ==
    /\ pc' = p
    /\ commands' = <<>>
    /\ reply' = reply

\* The actor task ends at position p (run_loop returns, or a panic unwinds
\* it): the ListenerActor is dropped, and with commands_rx every queued
\* command, so the oneshot sender of a queued GetState is dropped unanswered.
\* Assigns pc, commands, reply.
actor_dropped(p) ==
    /\ pc' = p
    /\ commands' = <<>>
    /\ reply' = IF reply.status = "waiting" THEN Closed ELSE reply

\* self.event_tx.send(ev).await.unwrap(): the send fails, and unwrap panics,
\* when no receiver is left; it completes when the queue has room and is
\* suspended (at position blocked_pc) while the queue is full.
\* Assigns pc, pending, events, emitted, commands, reply.
send(ev, next_pc, blocked_pc) ==
    IF ~events_open
    THEN /\ actor_dropped("panicked")
         /\ pending' = NoEvent
         /\ events' = events
         /\ emitted' = emitted
    ELSE IF Len(events) < EventCapacity
    THEN /\ events' = Append(events, ev)
         /\ emitted' = IF ev.kind = "ConnectionStateChanged"
                       THEN ev.state ELSE emitted
         /\ pc' = next_pc
         /\ pending' = NoEvent
         /\ UNCHANGED <<commands, reply>>
    ELSE /\ pc' = blocked_pc
         /\ pending' = ev
         /\ UNCHANGED <<events, emitted, commands, reply>>

\* set_state: the field is written first, then the event is sent.
\* Assigns state, last_set and what send assigns.
set_state(s, next_pc) ==
    /\ state' = s
    /\ last_set' = s
    /\ send(ConnectionStateChanged(s), next_pc, "set_state")

\* retry_after with the threshold included.
retry_after_inclusive(r, up) == IF up >= StableUptime THEN FreshRetry ELSE r

\* The generator the failure handler goes on with: a new one when the failed
\* attempt's uptime was above the stability threshold.
retry_after(r, up) == IF up > StableUptime THEN FreshRetry ELSE r

\* attempt_failed with the error propagated out of the supervised loop: the
\* loop, and with it run_loop, ends.
attempt_failed_fatal(r, up) ==
    /\ uptime' = up
    /\ retry' = r
    /\ actor_dropped("done")
    /\ UNCHANGED <<state, last_set, pending, events, emitted>>

\* The Err arm of run_supervised_loop, up to the suspension in set_state or
\* in retry.wait(). r is the generator, up the attempt's uptime.
\* Assigns retry, uptime and what set_state assigns.
attempt_failed(r, up) ==
    /\ uptime' = up
    /\ retry' = retry_after(r, up)
    /\ set_state(Reconnecting(retry_after(r, up).count,
                              NextDelay(retry_after(r, up))), "sleeping")

\* One iteration of the supervised loop from its top to the first suspension
\* of recv_and_forward_loop: take start_time, build the request (which fails
\* at once for a malformed endpoint) and execute it.
\* Assigns attempts, last_request and what attempt_failed assigns.
begin_attempt(r) ==
    /\ attempts' = attempts + 1
    /\ IF endpoint_ok
       THEN /\ last_request' = since
            /\ retry' = r
            /\ uptime' = 0
            /\ pc' = "executing"
            /\ UNCHANGED <<state, last_set, pending, events, emitted,
                           commands, reply>>
       ELSE /\ last_request' = last_request
            /\ attempt_failed(r, 0)

\* where a suspended send resumes
after_send ==
    IF pc = "forward" \/ pending.state.name = "Connected"
    THEN "streaming" ELSE "sleeping"

\* advance left out: the cursor stays where it was.
advance_skipped(cursor, t) == cursor

\* advance without the max: the cursor follows the last line.
advance_overwrite(cursor, t) == t

\* The cursor after a line whose minimal parse gave timestamp t.
advance(cursor, t) == Max(t, cursor)

\* execute_response with the lines read before Connected is set: a success
\* goes on to the line loop at once.
execute_response_unannounced(outcome) ==
    /\ pc = "executing"
    /\ IF outcome = "ok"
       THEN /\ pc' = "streaming"
            /\ UNCHANGED <<state, last_set, pending, events, emitted, commands,
                           reply, retry, uptime>>
       ELSE \E up \in Uptimes : attempt_failed(retry, up)
    /\ UNCHANGED <<since, events_open, commands_open, endpoint_ok, last_request,
                   attempts, lines, ncmds, last_cmd, cancelled>>

\* execute(req).await? and error_for_status()?: a transport error
\* ("transport"), a non-success status ("status"), or a success ("ok"),
\* after which Connected is set.
execute_response(outcome) ==
    /\ pc = "executing"
    /\ IF outcome = "ok"
       THEN /\ set_state(Connected, "streaming")
            /\ UNCHANGED <<retry, uptime>>
       ELSE \E up \in Uptimes : attempt_failed(retry, up)
    /\ UNCHANGED <<since, events_open, commands_open, endpoint_ok,
                   last_request, attempts, lines, ncmds, last_cmd, cancelled>>

\* recv_line with the cursor folded only after the full parse has succeeded.
recv_line_full_parse_first(l) ==
    /\ pc = "streaming"
    /\ lines < MaxLines
    /\ lines' = lines + 1
    /\ IF l.kind \in {"io_error", "invalid", "unknown"}
       THEN /\ since' = since
            /\ \E up \in Uptimes : attempt_failed(retry, up)
       ELSE /\ since' = advance(since, l.time)
            /\ IF l.kind = "message"
               THEN /\ send(MessageEvent(l.time), "streaming", "forward")
                    /\ UNCHANGED <<state, last_set, retry, uptime>>
               ELSE UNCHANGED <<pc, state, last_set, retry, uptime, pending,
                                events, emitted, commands, reply>>
    /\ UNCHANGED <<events_open, commands_open, endpoint_ok, last_request,
                   attempts, ncmds, last_cmd, cancelled>>

\* One turn of the while-let loop for the line (or read error) l.
recv_line(l) ==
    /\ pc = "streaming"
    /\ lines < MaxLines
    /\ lines' = lines + 1
    /\ IF l.kind \in {"io_error", "invalid"}
       THEN /\ since' = since
            /\ \E up \in Uptimes : attempt_failed(retry, up)
       ELSE /\ since' = advance(since, l.time)
            /\ IF l.kind = "unknown"
               THEN \E up \in Uptimes : attempt_failed(retry, up)
               ELSE IF l.kind = "message"
               THEN /\ send(MessageEvent(l.time), "streaming", "forward")
                    /\ UNCHANGED <<state, last_set, retry, uptime>>
               ELSE UNCHANGED <<pc, state, last_set, retry, uptime, pending,
                                events, emitted, commands, reply>>
    /\ UNCHANGED <<events_open, commands_open, endpoint_ok, last_request,
                   attempts, ncmds, last_cmd, cancelled>>

\* stream_ended with the end of the stream handled as a failed attempt.
stream_ended_retried ==
    /\ pc = "streaming"
    /\ \E up \in Uptimes : attempt_failed(retry, up)
    /\ UNCHANGED <<since, events_open, commands_open, endpoint_ok,
                   last_request, attempts, lines, ncmds, last_cmd, cancelled>>

\* The line stream ends: recv_and_forward_loop returns Ok(()), the
\* supervised loop breaks, and its select arm breaks run_loop.
stream_ended ==
    /\ pc = "streaming"
    /\ actor_dropped("done")
    /\ UNCHANGED <<state, since, retry, uptime, pending, events, emitted,
                   events_open, commands_open, endpoint_ok, last_request,
                   attempts, lines, ncmds, last_cmd, cancelled, last_set>>

----------------------------------------------------------------------------
\* The actor's steps against a live server.

\* run_supervised_loop with the generator kept from the loop the last
\* command dropped.
run_supervised_loop_keeps_retry ==
    /\ pc = "idle"
    /\ attempts < MaxAttempts
    /\ begin_attempt(retry)
    /\ cancelled' = NotCancelled
    /\ UNCHANGED <<since, events_open, commands_open, endpoint_ok, lines,
                   ncmds, last_cmd>>
    /\ UNCHANGED testVars

\* run_loop polls a new run_supervised_loop future: a fresh generator, then
\* the first iteration.
run_supervised_loop ==
    /\ pc = "idle"
    /\ attempts < MaxAttempts
    /\ begin_attempt(FreshRetry)
    /\ cancelled' = NotCancelled
    /\ UNCHANGED <<since, events_open, commands_open, endpoint_ok, lines,
                   ncmds, last_cmd>>
    /\ UNCHANGED testVars

\* The request is answered.
execute ==
    /\ \E outcome \in {"transport", "status", "ok"} : execute_response(outcome)
    /\ UNCHANGED testVars

\* stream.next() yields an I/O error.
line_io_error ==
    /\ recv_line(Line("io_error", 0))
    /\ UNCHANGED testVars

\* A line that is no MinMessage (not JSON, or without a time).
line_invalid ==
    /\ recv_line(Line("invalid", 0))
    /\ UNCHANGED testVars

\* A line with a timestamp that is no ServerEvent.
line_unknown ==
    /\ \E t \in 1..MaxTime : recv_line(Line("unknown", t))
    /\ UNCHANGED testVars

\* A message event.
line_message ==
    /\ \E t \in 1..MaxTime : recv_line(Line("message", t))
    /\ UNCHANGED testVars

\* line_open_keepalive with the event forwarded as a message is.
line_open_keepalive_forwarded ==
    /\ \E t \in 1..MaxTime : recv_line(Line("message", t))
    /\ UNCHANGED testVars

\* An open or keepalive event.
line_open_keepalive ==
    /\ \E k \in {"open", "keepalive"}, t \in 1..MaxTime : recv_line(Line(k, t))
    /\ UNCHANGED testVars

\* The server closes the stream.
stream_end ==
    /\ stream_ended
    /\ UNCHANGED testVars

\* A suspended send is woken: the queue has room, or the receivers are gone.
send_resumed ==
    /\ pc \in {"set_state", "forward"}
    /\ (Len(events) < EventCapacity \/ ~events_open)
    /\ send(pending, after_send, pc)
    /\ UNCHANGED <<state, since, retry, uptime, events_open, commands_open,
                   endpoint_ok, last_request, attempts, lines, ncmds, last_cmd,
                   cancelled,
                   last_set>>
    /\ UNCHANGED testVars

\* retry.wait() returns: the next iteration of the supervised loop.
wait_elapsed ==
    /\ pc = "sleeping"
    /\ attempts < MaxAttempts
    /\ begin_attempt(Waited(retry))
    /\ UNCHANGED <<since, events_open, commands_open, endpoint_ok, lines,
                   ncmds, last_cmd, cancelled>>
    /\ UNCHANGED testVars

\* The select's command arm wins: the run_supervised_loop future of this
\* iteration is dropped with everything it holds (the request or stream, a
\* suspended send, the sleep, the generator).
\* Assigns everything but pc, commands, reply.
supervised_dropped(cmd) ==
    /\ pending' = NoEvent
    /\ uptime' = 0
    /\ last_cmd' = cmd
    /\ cancelled' = IF cmd \in {"Restart", "GetState"}
                    THEN Cancelled(pc, pending) ELSE NotCancelled
    /\ UNCHANGED <<state, since, retry, events, emitted, events_open,
                   commands_open, endpoint_ok, last_request, attempts, lines,
                   ncmds, last_set>>
    /\ UNCHANGED testVars

\* Some(ListenerCommand::Restart) => continue
recv_Restart ==
    /\ pc \notin Ended
    /\ commands # <<>> /\ Head(commands) = "Restart"
    /\ commands' = Tail(commands)
    /\ pc' = "idle"
    /\ reply' = reply
    /\ supervised_dropped("Restart")

\* recv_Shutdown with continue for break.
recv_Shutdown_continues ==
    /\ pc \notin Ended
    /\ commands # <<>> /\ Head(commands) = "Shutdown"
    /\ commands' = Tail(commands)
    /\ pc' = "idle"
    /\ reply' = reply
    /\ supervised_dropped("Shutdown")

\* Some(ListenerCommand::Shutdown) => break
recv_Shutdown ==
    /\ pc \notin Ended
    /\ commands # <<>> /\ Head(commands) = "Shutdown"
    /\ actor_dropped("done")
    /\ supervised_dropped("Shutdown")

\* The position of run_loop after the GetState arm, entered at position p:
\* the arm has no continue and no break, so the select ends, its futures are
\* dropped and the loop takes its next iteration.
after_GetState(p) == "idle"

\* state_reply answering with a default state.
state_reply_default(s) == Answered(Unitialized)

\* The value the GetState arm sends: self.state.clone().
state_reply(s) == Answered(s)

\* Some(ListenerCommand::GetState(tx)) => tx.send(self.state.clone())
recv_GetState ==
    /\ pc \notin Ended
    /\ commands # <<>> /\ Head(commands) = "GetState"
    /\ commands' = Tail(commands)
    /\ reply' = IF reply.status = "waiting" THEN state_reply(state) ELSE reply
    /\ pc' = after_GetState(pc)
    /\ supervised_dropped("GetState")

\* recv_None with continue for break.
recv_None_continues ==
    /\ pc \notin Ended
    /\ commands = <<>> /\ ~commands_open
    /\ pc' = "idle"
    /\ UNCHANGED <<commands, reply>>
    /\ supervised_dropped("closed")

\* None => break: every sender is gone and the queue is empty.
recv_None ==
    /\ pc \notin Ended
    /\ commands = <<>> /\ ~commands_open
    /\ actor_dropped("done")
    /\ supervised_dropped("closed")

----------------------------------------------------------------------------
\* The peers.

\* self.commands.send(cmd).await of a handle's owner.
\* Assigns commands, ncmds.
send_command(cmd) ==
    /\ commands_open
    /\ pc \notin Ended
    /\ ncmds < MaxCommands
    /\ Len(commands) < CommandCapacity
    /\ commands' = Append(commands, cmd)
    /\ ncmds' = ncmds + 1

send_Restart ==
    /\ send_command("Restart")
    /\ UNCHANGED <<pc, state, since, retry, uptime, pending, events, emitted,
                   events_open, commands_open, reply, endpoint_ok,
                   last_request, attempts, lines, last_cmd, cancelled,
                   last_set>>
    /\ UNCHANGED testVars

send_Shutdown ==
    /\ send_command("Shutdown")
    /\ UNCHANGED <<pc, state, since, retry, uptime, pending, events, emitted,
                   events_open, commands_open, reply, endpoint_ok,
                   last_request, attempts, lines, last_cmd, cancelled,
                   last_set>>
    /\ UNCHANGED testVars

\* ListenerHandle::state, up to rx.await
handle_state ==
    /\ reply.status # "waiting"
    /\ send_command("GetState")
    /\ reply' = Waiting
    /\ UNCHANGED <<pc, state, since, retry, uptime, pending, events, emitted,
                   events_open, commands_open, endpoint_ok, last_request,
                   attempts, lines, last_cmd, cancelled, last_set>>
    /\ UNCHANGED testVars

\* ListenerHandle::state against an actor task that has ended: commands_rx is
\* dropped, so self.commands.send() returns an error and its unwrap panics
\* in the caller.
handle_state_closed ==
    /\ commands_open
    /\ pc \in Ended
    /\ reply.status # "waiting"
    /\ ncmds < MaxCommands
    /\ ncmds' = ncmds + 1
    /\ reply' = SendFailed
    /\ UNCHANGED <<pc, state, since, retry, uptime, pending, events, emitted,
                   events_open, commands, commands_open, endpoint_ok,
                   last_request, attempts, lines, last_cmd, cancelled,
                   last_set>>
    /\ UNCHANGED testVars

\* The caller of state() is cancelled while it waits: the oneshot receiver
\* is dropped.
state_abandoned ==
    /\ reply.status = "waiting"
    /\ reply' = Abandoned
    /\ UNCHANGED <<pc, state, since, retry, uptime, pending, events, emitted,
                   events_open, commands, commands_open, endpoint_ok,
                   last_request, attempts, lines, ncmds, last_cmd, cancelled,
                   last_set>>
    /\ UNCHANGED testVars

\* Every ListenerHandle (every command sender) is dropped.
commands_dropped ==
    /\ commands_open
    /\ reply.status # "waiting"
    /\ commands_open' = FALSE
    /\ UNCHANGED <<pc, state, since, retry, uptime, pending, events, emitted,
                   events_open, commands, reply, endpoint_ok, last_request,
                   attempts, lines, ncmds, last_cmd, cancelled, last_set>>
    /\ UNCHANGED testVars

\* The consumer takes the next event.
events_recv ==
    /\ events_open
    /\ events # <<>>
    /\ events' = Tail(events)
    /\ UNCHANGED <<pc, state, emitted, since, retry, uptime, pending,
                   events_open, commands, commands_open, reply, endpoint_ok,
                   last_request, attempts, lines, ncmds, last_cmd, cancelled,
                   last_set>>
    /\ UNCHANGED testVars

\* Every event receiver is dropped, and the events still queued with it.
events_dropped ==
    /\ events_open
    /\ events_open' = FALSE
    /\ events' = <<>>
    /\ UNCHANGED <<pc, state, emitted, since, retry, uptime, pending,
                   commands, commands_open, reply, endpoint_ok, last_request,
                   attempts, lines, ncmds, last_cmd, cancelled, last_set>>
    /\ UNCHANGED testVars

----------------------------------------------------------------------------
Next ==
    \/ run_supervised_loop
    \/ execute
    \/ line_io_error
    \/ line_invalid
    \/ line_unknown
    \/ line_message
    \/ line_open_keepalive
    \/ stream_end
    \/ send_resumed
    \/ wait_elapsed
    \/ recv_Restart
    \/ recv_Shutdown
    \/ recv_GetState
    \/ recv_None
    \/ send_Restart
    \/ send_Shutdown
    \/ handle_state
    \/ handle_state_closed
    \/ state_abandoned
    \/ commands_dropped
    \/ events_recv
    \/ events_dropped

Spec == Init /\ [][Next]_vars

----------------------------------------------------------------------------
\* The harness of mod tests: a NullableClient that answers the requests
\* with its canned responses in order, no command is sent, and the test
\* collects listener.events.take(3).

\* listener.events.take(3)
Take == 3

\* text_response / json_response: a status and the lines of the body.
Response(st, ls) == [status |-> st, lines |-> ls]

CannedLines ==
    {Line("invalid", 0)} \cup
    {Line(k, t) : k \in {"open", "message"}, t \in 1..MaxTime}

CannedResponses ==
    {Response(500, <<>>), Response(200, <<>>)} \cup
    {Response(200, <<l>>) : l \in CannedLines}

\* The builders of the tests register one or two responses.
TestInit ==
    /\ pc = "idle"
    /\ state = Unitialized
    /\ since = 0
    /\ retry = FreshRetry
    /\ uptime = 0
    /\ pending = NoEvent
    /\ events = <<>>
    /\ events_open = TRUE
    /\ commands = <<>>
    /\ commands_open = TRUE
    /\ reply = NoReply
    /\ endpoint_ok = TRUE
    /\ last_request = NoRequest
    /\ attempts = 0
    /\ lines = 0
    /\ ncmds = 0
    /\ last_cmd = "none"
    /\ last_set = Unitialized
    /\ cancelled = NotCancelled
    /\ emitted = Unitialized
    /\ canned \in {<<a>> : a \in CannedResponses} \cup
                  {<<a, b>> : a \in CannedResponses, b \in CannedResponses}
    /\ served = 0
    /\ body = <<>>
    /\ items = <<>>

\* error_for_status: 4xx and 5xx are errors.
status_outcome(st) == IF st >= 400 THEN "status" ELSE "ok"

\* The NullableClient answers with its next canned response.
canned_execute ==
    /\ served < Len(canned)
    /\ execute_response(status_outcome(canned[served + 1].status))
    /\ served' = served + 1
    /\ body' = canned[served + 1].lines
    /\ UNCHANGED <<canned, items>>

\* The next line of the canned body is read.
canned_line ==
    /\ body # <<>>
    /\ recv_line(Head(body))
    /\ body' = Tail(body)
    /\ UNCHANGED <<canned, served, items>>

\* The canned body is read to its end.
canned_end ==
    /\ body = <<>>
    /\ stream_ended
    /\ UNCHANGED testVars

\* The test takes the next event; after the third the stream of take(3) is
\* complete and the receiver is dropped with it.
events_collect ==
    /\ events_open
    /\ events # <<>>
    /\ Len(items) < Take
    /\ items' = Append(items, Head(events))
    /\ events' = Tail(events)
    /\ events_open' = (Len(items) + 1 < Take)
    /\ UNCHANGED <<pc, state, emitted, since, retry, uptime, pending, commands,
                   commands_open, reply, endpoint_ok, last_request, attempts,
                   lines, ncmds, last_cmd, cancelled, last_set, canned, served,
                   body>>

TestNext ==
    \/ run_supervised_loop
    \/ canned_execute
    \/ canned_line
    \/ canned_end
    \/ send_resumed
    \/ wait_elapsed
    \/ events_collect

TestSpec == TestInit /\ [][TestNext]_vars

\* The runtime polls the actor task whenever it is woken, the canned client
\* answers at once and the test keeps collecting: no step stays enabled
\* forever without being taken.
TestFairSpec == TestSpec /\ WF_vars(TestNext)

----------------------------------------------------------------------------
\* Properties.

\* A step in which an attempt that had connected fails.
ConnectedAttemptFails == line_io_error \/ line_invalid \/ line_unknown

\* A step in which a request fails before a response body is read.
RequestFails == execute /\ state'.name # "Connected"

\* A step in which the request cannot even be built.
BuildFails == (run_supervised_loop \/ wait_elapsed) /\ ~endpoint_ok

\* What the failure handler leaves: Reconnecting set with a delay within the
\* generator's limits, and the loop suspended in set_state's send or in the
\* wait, with the new state's event queued or about to be.
Recovered ==
    /\ state'.name = "Reconnecting"
    /\ state'.delay >= MinDelay /\ state'.delay <= MaxDelay
    /\ state'.error = "some"
    /\ pc' \in {"sleeping", "set_state"}
    /\ pc' = "set_state" => pending' = ConnectionStateChanged(state')
    /\ pc' = "sleeping" => /\ events' # <<>>
                           /\ events'[Len(events')] = ConnectionStateChanged(state')

\* no event is placed on the outbound channel in this step
NothingEnqueued ==
    \/ events' = events
    \/ events # <<>> /\ events' = Tail(events)
    \/ events' = <<>>

MessageCount(q) == Cardinality({i \in DOMAIN q : q[i].kind = "Message"})

\* C1 (as claimed): taking a GetState while an attempt or a backoff sleep is
\* in progress leaves that attempt or sleep in progress, issues no request
\* and leaves the backoff generator alone.
C1_GetStateCancelsNothing ==
    [][(recv_GetState /\ pc # "idle") =>
          /\ pc' = pc
          /\ pending' = pending
          /\ retry' = retry
          /\ attempts' = attempts
          /\ last_request' = last_request]_vars

Http500Scenario ==
    \E t \in 1..MaxTime :
        canned = <<Response(500, <<>>), Response(200, <<Line("open", t)>>)>>

\* The scenario of test_listener_reconnects_on_invalid_message.
InvalidMessageScenario ==
    \E t \in 1..MaxTime :
        canned = <<Response(200, <<Line("invalid", 0)>>),
                   Response(200, <<Line("open", t)>>)>>

\* The states the tests expect the first three events to carry.
ExpectedStates == <<"Unitialized", "Reconnecting", "Connected">>

AsExpected ==
    \A i \in 1..Len(items) :
        /\ items[i].kind = "ConnectionStateChanged"
        /\ items[i].state.name = ExpectedStates[i]

\* C3 (as claimed): with a 500 and then a 200 with an open event, the events
\* collected are, in order, state changes to Unitialized, Reconnecting and
\* Connected.
C3_Http500EventSequence == Http500Scenario => AsExpected

\* C4 (as claimed): with a 200 whose body is no JSON and then a 200 with an
\* open event, the events collected are, in order, state changes to
\* Unitialized, Reconnecting and Connected.
C4_InvalidMessageEventSequence == InvalidMessageScenario => AsExpected

\* C5: the cursor never decreases, a line with timestamp t leaves it at the
\* maximum of t and its value before, and no request carries a smaller cursor
\* than a request before it.
C5_CursorOnlyAdvances ==
    [][/\ since' >= since
       /\ last_request' >= last_request
       /\ \A k \in {"unknown", "message", "open", "keepalive"}, t \in 1..MaxTime :
             recv_line(Line(k, t)) =>
                since' = (IF t >= since THEN t ELSE since)]_vars

\* C5 witness: lines with a larger and then a smaller (or equal) timestamp
\* were read, and a later request carries the cursor they left.
C5_Witness ==
    /\ lines >= 1
    /\ since = MaxTime
    /\ last_request = since
    /\ pc = "streaming"

\* C6: the step that takes a Shutdown ends the actor task and places no
\* event on the outbound channel, and once the task has ended it stays ended
\* and no event is placed, wherever the actor was suspended.
C6_ShutdownEndsActor ==
    [][/\ last_cmd' = "Shutdown" =>
             (pc' = "done" /\ pending' = NoEvent /\ NothingEnqueued)
       /\ recv_Shutdown => (last_cmd' = "Shutdown" /\ events' = events)
       /\ pc \in Ended => (pc' = pc /\ NothingEnqueued)]_vars

\* C6 witness: the Shutdown was taken while set_state(Reconnecting) was
\* suspended on the full channel (the queue still holds the older event and
\* the Reconnecting event was never queued).
C6_Witness ==
    /\ last_cmd = "Shutdown"
    /\ pc = "done"
    /\ state.name = "Reconnecting"
    /\ Len(events) = EventCapacity
    /\ \A i \in DOMAIN events : events[i] # ConnectionStateChanged(state)

\* C7: a GetState is answered with the state set_state last set, and with
\* Unitialized when set_state was never called.
C7_GetStateRepliesLastSetState ==
    [][(reply.status = "waiting" /\ reply'.status = "answered") =>
          reply'.value = last_set]_vars

\* C7 witness: a GetState was answered after a failed attempt.
C7_Witness ==
    /\ reply.status = "answered"
    /\ reply.value.name = "Reconnecting"

\* The scenario of one message event and a clean close.
OneMessageScenario ==
    \E t \in 1..MaxTime : canned = <<Response(200, <<Line("message", t)>>)>>

\* C8: when the server streams one message event and closes the stream, the
\* actor makes one attempt only, never sets Reconnecting, and ends with
\* exactly one Message event collected by the consumer.
C8_OneMessageThenCleanEnd ==
    OneMessageScenario =>
        /\ [](/\ attempts <= 1
              /\ state.name # "Reconnecting"
              /\ pc \notin {"sleeping", "panicked"}
              /\ MessageCount(items) + MessageCount(events) <= 1)
        /\ <>[](pc = "done" /\ MessageCount(items) = 1 /\ attempts = 1)

\* C8 witness: the scenario has run to its end.
C8_Witness ==
    /\ OneMessageScenario
    /\ pc = "done"
    /\ MessageCount(items) = 1
    /\ attempts = 1

\* C9 (as claimed): a failed attempt, of whatever class, sets Reconnecting,
\* waits and is followed by a new attempt; it never ends the actor task.
C9_FailureNeverEndsActor ==
    [][(ConnectedAttemptFails \/ RequestFails \/ BuildFails) =>
          (state'.name = "Reconnecting" /\ pc' \notin Ended)]_vars

\* C9 (amended): while an event receiver is alive, a failed attempt of each
\* class (request build, transport or status, stream I/O, minimal parse, full
\* parse) sets Reconnecting with a delay between the minimum and the maximum
\* and leaves the loop waiting, and the end of the wait begins a new attempt;
\* when every event receiver is gone, the failure still sets Reconnecting and
\* the send of its event ends the task.
C9_FailureRecoveredWhileReceiverAlive ==
    [][/\ (events_open /\ BuildFails) => Recovered
       /\ (events_open /\ RequestFails) => Recovered
       /\ (events_open /\ line_io_error) => Recovered
       /\ (events_open /\ line_invalid) => Recovered
       /\ (events_open /\ line_unknown) => Recovered
       /\ (~events_open /\ (ConnectedAttemptFails \/ RequestFails \/ BuildFails)) =>
             (state'.name = "Reconnecting" /\ pc' = "panicked")
       /\ wait_elapsed => (attempts' = attempts + 1 /\ pc' # "done")]_vars

\* C9 witness: after a failure and its wait, the next request is in flight.
C9_Witness ==
    /\ pc = "executing"
    /\ state.name = "Reconnecting"
    /\ retry.count >= 1
    /\ attempts >= 2

\* C10 (as claimed): an attempt that connected and fails with an uptime of
\* 240 s or more gets the generator reset, so the Reconnecting it sets is
\* that of a fresh generator.
C10_ResetAtFourMinutes ==
    [][(ConnectedAttemptFails /\ uptime' >= StableUptime) =>
          /\ retry' = FreshRetry
          /\ state'.retry_count = 0
          /\ state'.delay = MinDelay]_vars

\* C10 (amended): an attempt that connected and fails with an uptime above
\* 240 s gets the generator reset, so the Reconnecting it sets is that of a
\* fresh generator (count 0, minimum delay); with an uptime of 240 s or less
\* the generator is kept.
C10_ResetAboveFourMinutes ==
    [][ConnectedAttemptFails =>
          IF uptime' > StableUptime
          THEN /\ retry' = FreshRetry
               /\ state'.retry_count = 0
               /\ state'.delay = MinDelay
          ELSE /\ retry' = retry
               /\ state'.retry_count = retry.count
               /\ state'.delay = NextDelay(retry)]_vars

\* C10 witness: the second attempt, made with a generator that had waited
\* once, connected and failed past the threshold, and Reconnecting shows the
\* fresh generator.
C10_Witness ==
    /\ attempts = 2
    /\ last_cmd = "none"
    /\ lines >= 1
    /\ uptime > StableUptime
    /\ state = Reconnecting(0, MinDelay)
    /\ pc = "sleeping"

\* C11 (as claimed): when an attempt fails right after a failed attempt, both
\* with an uptime below 240 s, the delay of the second Reconnecting is at
\* least the delay of the first and at most the maximum, whatever command was
\* handled between the two failures; here for the commands that are not a
\* Restart, that is none or a GetState. (With a malformed endpoint every
\* attempt fails when its request is built, at uptime 0; state still holds
\* the Reconnecting of the failure before.)
C11_DelaysEscalateAcrossCommands ==
    [][(BuildFails /\ state.name = "Reconnecting" /\ last_cmd # "Restart") =>
          /\ uptime' < StableUptime
          /\ state'.delay >= state.delay
          /\ state'.delay <= MaxDelay]_vars

\* C12: a call of state() never waits on an actor task that has ended: while
\* the caller waits for the reply its GetState is in the command queue of a
\* running actor, and when the task ends with the GetState unanswered, or
\* has ended before the call, the call fails (the oneshot is closed, or the
\* send returns an error) instead of waiting.
C12_StateNeverWaitsOnEndedActor ==
    /\ pc \in Ended => reply.status # "waiting"
    /\ reply.status = "waiting" =>
          \E i \in DOMAIN commands : commands[i] = "GetState"
    /\ reply.status = "send_failed" => pc \in Ended

\* C12 witness: the actor task ended while a GetState was queued, and the
\* caller's oneshot is closed.
C12_Witness ==
    /\ pc \in Ended
    /\ reply.status = "closed"
    /\ ncmds >= 1

\* C13 (as claimed): no message is lost while the actor runs, whatever
\* command meets a suspended send; here for GetState: the supervised loop
\* started after a GetState never issues a request with a cursor that covers
\* a Message whose suspended send the GetState dropped and that is not on
\* the outbound channel.
C13_NoMessageLost ==
    [][(run_supervised_loop /\ endpoint_ok /\ last_cmd = "GetState") =>
          ~(/\ cancelled.event.kind = "Message"
            /\ last_request' >= cancelled.event.time
            /\ \A i \in DOMAIN events : events[i] # cancelled.event)]_vars

\* C14 (as claimed): after a failed attempt a new attempt begins only when
\* the wait has elapsed, unless a Restart was taken: a supervised loop is
\* never started after a command other than Restart that found the actor in
\* retry.wait().
C14_SleepNotShortened ==
    [][attempts' = attempts + 1 =>
          \/ wait_elapsed
          \/ last_cmd = "Restart"
          \/ cancelled.at # "sleeping"]_vars

\* C15: the cursor is updated no later than its message is forwarded: every
\* Message event on the outbound channel, and the one a suspended send still
\* holds, has a timestamp that is at most the cursor.
C15_ForwardedNotPastCursor ==
    /\ \A i \in DOMAIN events :
          events[i].kind = "Message" => events[i].time <= since
    /\ pending.kind = "Message" => pending.time <= since

\* C15 witness: a Message is on the channel and a later line has moved the
\* cursor past its timestamp.
C15_Witness ==
    /\ events # <<>>
    /\ events[Len(events)].kind = "Message"
    /\ events[Len(events)].time < since
    /\ lines = 2

\* No Message is placed on the outbound channel, or left with a suspended
\* send, in this step.
NothingForwarded ==
    /\ pending'.kind # "Message"
    /\ MessageCount(events') <= MessageCount(events)

\* The attempt ends with an error in this step: the failure handler sets
\* Reconnecting, and the task waits, or ends in set_state when no event
\* receiver is left.
AttemptEndsWithError ==
    /\ state'.name = "Reconnecting"
    /\ pc' \in {"sleeping", "set_state", "panicked"}

\* C16: a line that fails the minimal parse ends the attempt with an error
\* and leaves the cursor unchanged; a line with timestamp t that passes the
\* minimal parse and fails the full parse ends the attempt with an error
\* with the cursor at the maximum of t and its value before; nothing is
\* forwarded for either line.
C16_CursorFollowsMinimalParse ==
    [][/\ line_invalid =>
             (since' = since /\ AttemptEndsWithError /\ NothingForwarded)
       /\ \A t \in 1..MaxTime :
             (recv_line(Line("unknown", t)) /\ line_unknown) =>
                /\ since' = (IF t > since THEN t ELSE since)
                /\ AttemptEndsWithError
                /\ NothingForwarded]_vars

\* C16 witness: the one line read so far passed the minimal parse only: it
\* has ended its attempt, and the cursor has advanced to its timestamp while
\* the request of that attempt carried the older cursor.
C16_Witness ==
    /\ state.name = "Reconnecting"
    /\ pc = "sleeping"
    /\ lines = 1
    /\ since > last_request
    /\ last_request >= 0
    /\ \A i \in DOMAIN events : events[i].kind # "Message"

\* C17: an open or keepalive line leaves the outbound channel, a suspended
\* send, the connection state and the position of the actor unchanged and
\* can only move the cursor; a message line with timestamp t makes one send
\* of Message(t): the event is appended to the channel, or held by the send
\* suspended on the full channel, or the send fails for want of a receiver;
\* a resumed send appends the one event it held.
C17_OnlyMessagesForwarded ==
    [][/\ line_open_keepalive =>
             /\ events' = events /\ pending' = pending
             /\ state' = state /\ pc' = pc /\ retry' = retry
             /\ since' >= since
       /\ \A t \in 1..MaxTime :
             (recv_line(Line("message", t)) /\ line_message) =>
                /\ state' = state
                /\ IF ~events_open
                   THEN pc' = "panicked" /\ events' = events
                   ELSE IF Len(events) < EventCapacity
                   THEN /\ events' = Append(events, MessageEvent(t))
                        /\ pending' = NoEvent /\ pc' = "streaming"
                   ELSE /\ events' = events
                        /\ pending' = MessageEvent(t) /\ pc' = "forward"
       /\ (send_resumed /\ pc = "forward" /\ events_open) =>
             /\ events' = Append(events, pending)
             /\ pending' = NoEvent]_vars

\* C17 witness: in the first attempt lines were read while the Connected
\* event is still at the head of the channel with nothing behind it, and the
\* actor goes on reading: the lines were open or keepalive events, and the
\* cursor has moved.
C17_Witness ==
    /\ attempts = 1
    /\ pc = "streaming"
    /\ lines >= 1
    /\ since >= 1
    /\ events = <<ConnectionStateChanged(Connected)>>

\* A ConnectionStateChanged(Connected) is placed on the outbound channel, or
\* left with a suspended send, in this step.
ConnectedEmitted ==
    \/ pending' = ConnectionStateChanged(Connected) /\ pending' # pending
    \/ /\ Len(events') > Len(events)
       /\ events'[Len(events')] = ConnectionStateChanged(Connected)

C19_ClosedCommandsEndActor ==
    [][/\ (~commands_open /\ commands = <<>> /\ pc \notin Ended) =>
             ENABLED recv_None
       /\ recv_None =>
             /\ pc' = "done"
             /\ pending' = NoEvent
             /\ events' = events
             /\ attempts' = attempts /\ last_request' = last_request
       /\ last_cmd = "closed" =>
             /\ pc' = "done"
             /\ NothingEnqueued
             /\ attempts' = attempts /\ last_request' = last_request]_vars

\* C19 witness: the senders were dropped while the first request was in
\* flight (it was issued, and neither Connected nor Reconnecting was set),
\* and the actor has ended on the None.
C19_Witness ==
    /\ last_cmd = "closed"
    /\ pc = "done"
    /\ ~commands_open
    /\ attempts = 1
    /\ last_request # NoRequest
    /\ state = Unitialized

\* C20 (as claimed): while the actor runs, the state a GetState would return
\* is the state carried by the last ConnectionStateChanged the actor has
\* placed on the outbound channel, or by the one a suspended set_state is
\* still going to place (Unitialized when there is none).
C20_StateMatchesEmitted ==
    pc \notin Ended =>
        state = (IF pending.kind = "ConnectionStateChanged"
                 THEN pending.state ELSE emitted)

====
